---- MODULE Spec2Model ----
(***************************************************************************)
(* A model of site_cloner.main.create_site_map: the recursive crawl, its   *)
(* visited set, its depth bound, its same-origin filter and its per-page   *)
(* try/except, together with the URL helpers it calls.                     *)
(*                                                                         *)
(* A URL string is modelled by the components urllib.parse.urlparse finds  *)
(* in it: "http://a.test/p1#top" is [scheme |-> "http", netloc |->         *)
(* "a.test", path |-> "/p1", frag |-> "top"].  Two strings are equal iff   *)
(* their components are.  A netloc of "[" stands for an unbalanced IPv6    *)
(* bracket ("http://["), on which urlparse raises ValueError.              *)
(***************************************************************************)
EXTENDS Integers, Sequences, FiniteSets, TLC

MkUrl(s, n, p, f) == [scheme |-> s, netloc |-> n, path |-> p, frag |-> f]

(* ------------------------------------------------------------------ *)
(* Bounds and the inputs the model draws from                          *)
(* ------------------------------------------------------------------ *)

\* max_depth is drawn from 0 .. MaxDepthBound
MaxDepthBound == 3

\* the hrefs that occur on the pages of the modelled sites
hAbs0        == MkUrl("http", "a.test", "/p0", "")    \* "http://a.test/p0"
hRoot1       == MkUrl("", "", "/p1", "")              \* "/p1"
hRel2        == MkUrl("", "", "p2", "")               \* "p2"
hSch3        == MkUrl("http", "", "p3", "")           \* "http:p3"
hOtherHost   == MkUrl("http", "b.test", "/p1", "")    \* "http://b.test/p1"
hOtherScheme == MkUrl("https", "a.test", "/p1", "")   \* "https://a.test/p1"
hProtoRel    == MkUrl("", "a.test", "/p1", "")        \* "//a.test/p1"
hFtp         == MkUrl("ftp", "", "p1", "")            \* "ftp:p1"
hHash        == MkUrl("", "", "", "top")              \* "#top"
hMailto      == MkUrl("mailto", "", "x@a.test", "")   \* "mailto:x@a.test"
hJs          == MkUrl("javascript", "", "void(0)", "")\* "javascript:void(0)"
hEmpty       == MkUrl("", "", "", "")                 \* ""
hBad         == MkUrl("http", "[", "", "")            \* "http://["

A(h, t) == [href |-> h, text |-> t]

\* what a fetch of a page gives: a failure (transport error, non-2xx status,
\* markup the parser rejects), or markup with a title ("" when there is no
\* <title>) and its <a href=...> elements in document order
FailPage == [ok |-> FALSE, title |-> "", anchors |-> <<>>]
Page(t, as) == [ok |-> TRUE, title |-> t, anchors |-> as]

Contents ==
    { FailPage,
      Page("", <<>>),
      Page("T", <<A(hRoot1, "one"), A(hRel2, "two")>>),
      Page("T", <<A(hRel2, "")>>),
      Page("T", <<A(hRel2, "two"), A(hRel2, "again")>>),
      Page("", <<A(hSch3, "three"), A(hAbs0, "home")>>),
      Page("T", <<A(hAbs0, "home"), A(hHash, "top"), A(hRoot1, "one")>>),
      Page("T", <<A(hRoot1, "one"), A(hBad, "bad"), A(hRel2, "two")>>),
      Page("T", <<A(hRoot1, "one"), A(hRel2, "two"), A(hSch3, "three"),
                  A(hOtherHost, "ext")>>),
      Page("", <<A(hOtherScheme, "s"), A(hProtoRel, ""), A(hFtp, "f"),
                 A(hMailto, "m"), A(hJs, "j"), A(hEmpty, "e"),
                 A(hSch3, "three")>>) }

\* the paths of the site served at http://a.test
Paths == {"/p0", "/p1", "/p2", "/p3"}

Sites == [Paths -> Contents]

\* the url argument of create_site_map: a page of the site, or a string
\* urlparse rejects
Seeds == { MkUrl("http", "a.test", "/p0", ""), hBad }

(* ------------------------------------------------------------------ *)
(* URL helpers                                                          *)
(* ------------------------------------------------------------------ *)

\* urllib.parse.urlparse raises ValueError("Invalid IPv6 URL")
urlparse_raises(url) == url.netloc = "["

\* f"{parsed.scheme}://{parsed.netloc}"
get_base_url(url) == MkUrl(url.scheme, url.netloc, "", "")

is_absolute_url(url) == url.netloc # ""

\* schemes urllib.parse.urljoin resolves relative references for
uses_relative == {"", "http", "https", "ftp"}

\* the path of a reference resolved against a base whose path is bpath
JoinPath(bpath, path) ==
    IF path = "" THEN bpath
    ELSE IF path \in Paths THEN path       \* begins with "/"
    ELSE "/" \o path                       \* bpath is "" here: the base is an origin

\* urllib.parse.urljoin(base, url)
urljoin(base, url) ==
    IF url = hEmpty THEN base
    ELSE LET scheme == IF url.scheme = "" THEN base.scheme ELSE url.scheme
         IN  IF scheme # base.scheme \/ scheme \notin uses_relative THEN url
             ELSE IF url.netloc # ""
                  THEN MkUrl(scheme, url.netloc, url.path, url.frag)
                  ELSE MkUrl(scheme, base.netloc, JoinPath(base.path, url.path),
                             url.frag)

normalize_url(base, url) ==
    IF is_absolute_url(url) THEN url ELSE urljoin(base, url)

(* ------------------------------------------------------------------ *)
(* State                                                                *)
(* ------------------------------------------------------------------ *)

VARIABLES
    pc,         \* "init": before the call; "running"; "returned"; "raised"
    url,        \* create_site_map's url argument
    max_depth,  \* create_site_map's max_depth argument
    web,        \* the site: what a fetch of each path gives
    base_url,   \* get_base_url(url)
    visited,    \* the set of URLs crawl has added
    sitemap,    \* the list of entries
    stack,      \* the active crawl calls, the running one last
    fetched,    \* history: the calls of fetch_url, in the order they started
    result      \* the returned dict

vars == <<pc, url, max_depth, web, base_url, visited, sitemap, stack, fetched,
          result>>

NoUrl == hEmpty
NoResult == [pages |-> -1]

\* a crawl(current_url, depth) call: at "enter" before line 321, at "fetch"
\* awaiting fetch_url (line 327), at "loop" in the for loop (lines 341-356)
\* with links the anchors still to come; page_info is the position of the
\* call's page_info dict in sitemap; caller is the page whose link was followed
Frame(u, d, c) ==
    [current_url |-> u, depth |-> d, at |-> "enter", links |-> <<>>,
     page_info |-> 0, caller |-> c]

Top == stack[Len(stack)]
Pop(stk) == SubSeq(stk, 1, Len(stk) - 1)
SetTop(stk, f) == [stk EXCEPT ![Len(stk)] = f]

\* the server at http://a.test: any other URL cannot be fetched
fetch_url(u) ==
    IF u.scheme = "http" /\ u.netloc = "a.test" /\ u.path \in DOMAIN web
    THEN web[u.path]
    ELSE FailPage

Init ==
    /\ pc = "init"
    /\ url \in Seeds
    /\ max_depth \in 0 .. MaxDepthBound
    /\ web \in Sites
    /\ base_url = NoUrl
    /\ visited = {}
    /\ sitemap = <<>>
    /\ stack = <<>>
    /\ fetched = <<>>
    /\ result = NoResult

(* ------------------------------------------------------------------ *)
(* create_site_map                                                      *)
(* ------------------------------------------------------------------ *)

\* line 316 raises: get_base_url(url) is outside every try
CallRaises ==
    /\ pc = "init"
    /\ urlparse_raises(url)
    /\ pc' = "raised"
    /\ UNCHANGED <<url, max_depth, web, base_url, visited, sitemap, stack,
                   fetched, result>>

\* lines 316-318 and the call crawl(url, 1) of line 362
Call ==
    /\ pc = "init"
    /\ ~urlparse_raises(url)
    /\ pc' = "running"
    /\ base_url' = get_base_url(url)
    /\ visited' = {}
    /\ sitemap' = <<>>
    /\ stack' = <<Frame(url, 1, NoUrl)>>
    /\ UNCHANGED <<url, max_depth, web, fetched, result>>

\* line 321 without the visited test
CrawlSkips_DepthOnly(current_url, depth) == depth > max_depth

\* line 321 without the depth test
CrawlSkips_VisitedOnly(current_url, depth) == current_url \in visited

\* line 321: depth > max_depth or current_url in visited
CrawlSkips(current_url, depth) ==
    depth > max_depth \/ current_url \in visited

\* lines 321-322: return
CrawlReturn ==
    /\ pc = "running" /\ stack # <<>>
    /\ Top.at = "enter"
    /\ CrawlSkips(Top.current_url, Top.depth)
    /\ stack' = Pop(stack)
    /\ UNCHANGED <<pc, url, max_depth, web, base_url, visited, sitemap,
                   fetched, result>>

\* lines 324-327: visited.add(current_url), then the fetch starts
CrawlVisit ==
    /\ pc = "running" /\ stack # <<>>
    /\ Top.at = "enter"
    /\ ~CrawlSkips(Top.current_url, Top.depth)
    /\ visited' = visited \cup {Top.current_url}
    /\ fetched' = Append(fetched, [url |-> Top.current_url,
                                   depth |-> Top.depth,
                                   caller |-> Top.caller])
    /\ stack' = SetTop(stack, [Top EXCEPT !.at = "fetch"])
    /\ UNCHANGED <<pc, url, max_depth, web, base_url, sitemap, result>>

\* line 339 with <= for <
FollowsLinks_Inclusive(depth) == depth <= max_depth

\* line 339: if depth < max_depth
FollowsLinks(depth) == depth < max_depth

\* lines 327-340: the fetch and the parse succeed; page_info is appended
FetchOk ==
    /\ pc = "running" /\ stack # <<>>
    /\ Top.at = "fetch"
    /\ LET page == fetch_url(Top.current_url)
           page_info == [url |-> Top.current_url,
                         title |-> IF page.title # "" THEN page.title
                                   ELSE "No title",
                         links |-> <<>>]
       IN  /\ page.ok
           /\ sitemap' = Append(sitemap, page_info)
           /\ stack' = SetTop(stack,
                  [Top EXCEPT !.at = "loop",
                              !.page_info = Len(sitemap) + 1,
                              !.links = IF FollowsLinks(Top.depth)
                                        THEN page.anchors ELSE <<>>])
    /\ UNCHANGED <<pc, url, max_depth, web, base_url, visited, fetched,
                   result>>

\* the exception leaves every active call: a try around line 362 only
Handled_Abort(stk) == <<>>

\* what is left of the active calls when the except clause of lines 358-360
\* has handled an exception of the running call: the call returns to its caller
Handled(stk) == Pop(stk)

\* lines 327-329 raise, lines 358-360 append the error entry
FetchFail ==
    /\ pc = "running" /\ stack # <<>>
    /\ Top.at = "fetch"
    /\ ~fetch_url(Top.current_url).ok
    /\ sitemap' = Append(sitemap, [url |-> Top.current_url,
                                   error |-> "fetch failed"])
    /\ stack' = Handled(stack)
    /\ UNCHANGED <<pc, url, max_depth, web, base_url, visited, fetched,
                   result>>

\* line 345: not href or href.startswith(("#", "javascript:", "mailto:"))
SkipHref(href) ==
    \/ href = hEmpty
    \/ href.scheme = "" /\ href.netloc = "" /\ href.path = "" /\ href.frag # ""
    \/ href.scheme \in {"javascript", "mailto"}

\* line 352 comparing the hosts only
SameDomain_HostOnly(full_url) == full_url.netloc = base_url.netloc

\* line 352: get_base_url(full_url) == base_url
SameDomain(full_url) == get_base_url(full_url) = base_url

\* line 356 passing depth on unchanged
ChildDepth_Same(depth) == depth

\* line 356: crawl(full_url, depth + 1)
ChildDepth(depth) == depth + 1

\* a continue that does not move on to the next link
Continue_Stuck(links) == links

\* line 346: continue goes on with the links after this one
Continue(links) == Tail(links)

\* lines 345-346: continue
LoopSkip ==
    /\ pc = "running" /\ stack # <<>>
    /\ Top.at = "loop" /\ Top.links # <<>>
    /\ SkipHref(Head(Top.links).href)
    /\ stack' = SetTop(stack, [Top EXCEPT !.links = Continue(Top.links)])
    /\ UNCHANGED <<pc, url, max_depth, web, base_url, visited, sitemap,
                   fetched, result>>

\* line 349 raises (urlparse in is_absolute_url), lines 358-360 append the
\* error entry after page_info
LoopRaise ==
    /\ pc = "running" /\ stack # <<>>
    /\ Top.at = "loop" /\ Top.links # <<>>
    /\ ~SkipHref(Head(Top.links).href)
    /\ urlparse_raises(Head(Top.links).href)
    /\ sitemap' = Append(sitemap, [url |-> Top.current_url,
                                   error |-> "Invalid IPv6 URL"])
    /\ stack' = Handled(stack)
    /\ UNCHANGED <<pc, url, max_depth, web, base_url, visited, fetched,
                   result>>

\* lines 349-352: the link is not of the same domain
LoopOther ==
    /\ pc = "running" /\ stack # <<>>
    /\ Top.at = "loop" /\ Top.links # <<>>
    /\ ~SkipHref(Head(Top.links).href)
    /\ ~urlparse_raises(Head(Top.links).href)
    /\ ~SameDomain(normalize_url(base_url, Head(Top.links).href))
    /\ stack' = SetTop(stack, [Top EXCEPT !.links = Tail(Top.links)])
    /\ UNCHANGED <<pc, url, max_depth, web, base_url, visited, sitemap,
                   fetched, result>>

\* lines 349-356: the link is recorded and crawl is called on it
LoopFollow ==
    /\ pc = "running" /\ stack # <<>>
    /\ Top.at = "loop" /\ Top.links # <<>>
    /\ LET link == Head(Top.links)
           full_url == normalize_url(base_url, link.href)
       IN  /\ ~SkipHref(link.href)
           /\ ~urlparse_raises(link.href)
           /\ SameDomain(full_url)
           /\ sitemap' = [sitemap EXCEPT ![Top.page_info].links =
                  Append(@, [url |-> full_url,
                             text |-> IF link.text # "" THEN link.text
                                      ELSE "No text"])]
           /\ stack' = Append(
                  SetTop(stack, [Top EXCEPT !.links = Tail(Top.links)]),
                  Frame(full_url, ChildDepth(Top.depth), Top.current_url))
    /\ UNCHANGED <<pc, url, max_depth, web, base_url, visited, fetched,
                   result>>

\* the for loop is over (or line 339 was false): crawl returns
LoopEnd ==
    /\ pc = "running" /\ stack # <<>>
    /\ Top.at = "loop" /\ Top.links = <<>>
    /\ stack' = Pop(stack)
    /\ UNCHANGED <<pc, url, max_depth, web, base_url, visited, sitemap,
                   fetched, result>>

\* line 364
Return ==
    /\ pc = "running" /\ stack = <<>>
    /\ pc' = "returned"
    /\ result' = [base_url |-> base_url, pages |-> Len(sitemap),
                  sitemap |-> sitemap]
    /\ UNCHANGED <<url, max_depth, web, base_url, visited, sitemap, stack,
                   fetched>>

Next ==
    \/ CallRaises
    \/ Call
    \/ CrawlReturn
    \/ CrawlVisit
    \/ FetchOk
    \/ FetchFail
    \/ LoopSkip
    \/ LoopRaise
    \/ LoopOther
    \/ LoopFollow
    \/ LoopEnd
    \/ Return

Spec == Init /\ [][Next]_vars

\* each step of the call is taken once it can be: a fetch returns or fails
\* (the 30 s timeout of line 42), and everything else is straight-line code
LiveSpec == Spec /\ WF_vars(Next)

(* ------------------------------------------------------------------ *)
(* Vocabulary of the properties                                         *)
(* ------------------------------------------------------------------ *)

IsPage(e)  == "links" \in DOMAIN e      \* {url, title, links}
IsError(e) == "error" \in DOMAIN e      \* {url, error}

EntryUrls   == { sitemap[k].url : k \in DOMAIN sitemap }
FetchedUrls == { fetched[i].url : i \in DOMAIN fetched }
EntriesOf(u) == { k \in DOMAIN sitemap : sitemap[k].url = u }
NoErrorEntry == \A k \in DOMAIN sitemap : ~IsError(sitemap[k])

\* the depth at which u was fetched
DepthOf(u) == fetched[CHOOSE i \in DOMAIN fetched : fetched[i].url = u].depth

\* the origin of the seed, and a link's URL resolved against it
SeedOrigin == get_base_url(url)
Resolved(h) == normalize_url(SeedOrigin, h)

\* an href that is a link to a page of the seed's origin
SameOriginHref(h) ==
    /\ ~SkipHref(h)
    /\ ~urlparse_raises(h)
    /\ get_base_url(Resolved(h)) = SeedOrigin

\* an href that resolves to another origin
CrossOriginHref(h) ==
    /\ ~SkipHref(h)
    /\ ~urlparse_raises(h)
    /\ get_base_url(Resolved(h)) # SeedOrigin

Rejected(h) == ~SkipHref(h) /\ urlparse_raises(h)

AnchorsOf(u) == fetch_url(u).anchors
Parseable(u) == \A i \in DOMAIN AnchorsOf(u) : ~Rejected(AnchorsOf(u)[i].href)

\* the same-origin pages the page at u links to
LinkTargets(u) ==
    { Resolved(AnchorsOf(u)[i].href) :
        i \in { j \in DOMAIN AnchorsOf(u) : SameOriginHref(AnchorsOf(u)[j].href) } }

LinkRecord(a) ==
    [url |-> Resolved(a.href), text |-> IF a.text = "" THEN "No text" ELSE a.text]

\* the {url, text} records of the same-origin links among anchors, in order,
\* up to the first href urlparse rejects
RECURSIVE ExpectedLinks(_)
ExpectedLinks(as) ==
    IF as = <<>> THEN <<>>
    ELSE IF Rejected(Head(as).href) THEN <<>>
    ELSE IF SameOriginHref(Head(as).href)
         THEN <<LinkRecord(Head(as))>> \o ExpectedLinks(Tail(as))
         ELSE ExpectedLinks(Tail(as))

\* the pages within k links of the seed
RECURSIVE Within(_)
Within(k) ==
    IF k = 0 THEN {url}
    ELSE LET W == Within(k - 1) IN W \cup UNION { LinkTargets(u) : u \in W }

\* what a level-by-level traversal of max_depth levels visits
BreadthFirstSet == IF max_depth >= 1 THEN Within(max_depth - 1) ELSE {}

(* ------------------------------------------------------------------ *)
(* C1                                                                   *)
(* ------------------------------------------------------------------ *)

\* C1: no URL is passed to fetch_url twice in one create_site_map call, and a
\* URL is in visited from the moment its fetch starts.
C1_AtMostOneFetch ==
    /\ \A i, j \in DOMAIN fetched : fetched[i].url = fetched[j].url => i = j
    /\ \A k \in DOMAIN stack :
           stack[k].at = "fetch" => stack[k].current_url \in visited
    /\ FetchedUrls = visited

\* a finished crawl in which two pages link to the same third page and a page
\* links back to the seed
C1_Witness ==
    /\ pc = "returned"
    /\ \E i, j \in DOMAIN sitemap :
           /\ i # j /\ IsPage(sitemap[i]) /\ IsPage(sitemap[j])
           /\ \E a \in DOMAIN sitemap[i].links, b \in DOMAIN sitemap[j].links :
                  /\ sitemap[i].links[a].url = sitemap[j].links[b].url
                  /\ sitemap[i].links[a].url \notin {sitemap[i].url, sitemap[j].url}
    /\ \E i \in DOMAIN sitemap :
           /\ i > 1 /\ IsPage(sitemap[i])
           /\ \E a \in DOMAIN sitemap[i].links : sitemap[i].links[a].url = url

(* ------------------------------------------------------------------ *)
(* C2                                                                   *)
(* ------------------------------------------------------------------ *)

\* C2: the seed is fetched at depth 1, a followed link one deeper than the
\* page it is on, nothing deeper than max_depth, and nothing is in visited or
\* in the sitemap that was not fetched so.
C2_DepthBound ==
    /\ \A i \in DOMAIN fetched :
           /\ 1 <= fetched[i].depth /\ fetched[i].depth <= max_depth
           /\ i = 1 => fetched[i].url = url /\ fetched[i].depth = 1
           /\ i > 1 => \E j \in 1 .. i - 1 :
                           /\ fetched[j].url = fetched[i].caller
                           /\ fetched[i].depth = fetched[j].depth + 1
    /\ visited \subseteq FetchedUrls
    /\ EntryUrls \subseteq FetchedUrls
    /\ \A k \in DOMAIN stack :
           stack[k].depth > max_depth =>
               stack[k].at = "enter" /\ stack[k].current_url \notin visited

\* a finished crawl that stopped at the depth bound: a page fetched at depth
\* max_depth links to a same-origin page that was never fetched
C2_Witness ==
    /\ pc = "returned"
    /\ max_depth >= 2
    /\ \E i \in DOMAIN fetched :
           /\ fetched[i].depth = max_depth
           /\ \E t \in LinkTargets(fetched[i].url) : t \notin visited

(* ------------------------------------------------------------------ *)
(* C3                                                                   *)
(* ------------------------------------------------------------------ *)

\* C3: every URL fetched, every URL in visited and every URL in a links list
\* has the seed's origin.
C3_SameOriginOnly ==
    /\ \A u \in visited \cup FetchedUrls : get_base_url(u) = SeedOrigin
    /\ \A k \in DOMAIN sitemap :
           IsPage(sitemap[k]) =>
               \A a \in DOMAIN sitemap[k].links :
                   get_base_url(sitemap[k].links[a].url) = SeedOrigin

\* a finished crawl whose loop ran over pages with links to another host,
\* to another scheme and a scheme-less link to the seed's host
C3_Witness ==
    /\ pc = "returned"
    /\ \A h \in {hOtherHost, hOtherScheme, hProtoRel} :
           /\ CrossOriginHref(h)
           /\ \E k \in DOMAIN sitemap :
                  /\ IsPage(sitemap[k])
                  /\ EntriesOf(sitemap[k].url) = {k}
                  /\ DepthOf(sitemap[k].url) < max_depth
                  /\ \E a \in DOMAIN AnchorsOf(sitemap[k].url) :
                         AnchorsOf(sitemap[k].url)[a].href = h

(* ------------------------------------------------------------------ *)
(* C4                                                                   *)
(* ------------------------------------------------------------------ *)

FetchDone(u) ==
    \A k \in DOMAIN stack : ~(stack[k].current_url = u /\ stack[k].at = "fetch")

C5_AsClaimed ==
    pc = "returned" =>
        /\ (max_depth = 1 /\ fetch_url(url).ok) => Len(sitemap) = 1
        /\ \A k \in DOMAIN sitemap :
               (IsPage(sitemap[k]) /\ Parseable(sitemap[k].url)) =>
                   sitemap[k].links = ExpectedLinks(AnchorsOf(sitemap[k].url))

\* C5 as amended: with max_depth = 1 the result is the seed's entry alone and
\* its links list is empty; the links list of a page fetched at depth
\* max_depth is empty, and that of a page fetched above it holds, once its
\* loop is over, the page's same-origin links in order, up to the first href
\* urlparse rejects.
C5_LinksOnlyAboveMaxDepth ==
    /\ \A k \in DOMAIN sitemap :
           (IsPage(sitemap[k]) /\ DepthOf(sitemap[k].url) >= max_depth) =>
               sitemap[k].links = <<>>
    /\ pc = "returned" =>
           /\ (max_depth = 1 /\ fetch_url(url).ok) =>
                  /\ Len(sitemap) = 1
                  /\ IsPage(sitemap[1]) /\ sitemap[1].url = url
                  /\ sitemap[1].links = <<>>
           /\ \A k \in DOMAIN sitemap :
                  (IsPage(sitemap[k]) /\ DepthOf(sitemap[k].url) < max_depth) =>
                      sitemap[k].links = ExpectedLinks(AnchorsOf(sitemap[k].url))

\* the case of the spec: max_depth = 1 on a seed with 3 same-origin links and
\* 1 cross-origin link
C5_Witness ==
    /\ pc = "returned"
    /\ max_depth = 1
    /\ Len(AnchorsOf(url)) = 4
    /\ Len(ExpectedLinks(AnchorsOf(url))) = 3
    /\ \E a \in DOMAIN AnchorsOf(url) : CrossOriginHref(AnchorsOf(url)[a].href)
    /\ result.pages = 1
    /\ result.sitemap[1].links = <<>>

(* ------------------------------------------------------------------ *)
(* C6                                                                   *)
(* ------------------------------------------------------------------ *)

\* C6 as claimed: when nothing fails, the URLs with an entry are those a
\* breadth-first traversal of max_depth levels visits.
C6_AsClaimed ==
    (pc = "returned" /\ NoErrorEntry) => EntryUrls = BreadthFirstSet

\* C6 as amended: the traversal is depth-first; every URL with an entry is
\* within max_depth - 1 links of the seed, and when nothing fails and
\* max_depth <= 2 the entries are exactly those pages.
C6_WithinBreadthFirstSet ==
    /\ EntryUrls \subseteq BreadthFirstSet
    /\ (pc = "returned" /\ NoErrorEntry /\ max_depth <= 2) =>
           EntryUrls = BreadthFirstSet

\* a finished crawl without failure that missed a page within max_depth - 1
\* links of the seed
C6_Witness ==
    /\ pc = "returned"
    /\ NoErrorEntry
    /\ \E u \in BreadthFirstSet : u \notin EntryUrls

(* ------------------------------------------------------------------ *)
(* C7                                                                   *)
(* ------------------------------------------------------------------ *)

\* C7 as claimed, for create_site_map: the call never ends in a raised
\* exception.
C7_NoRawFault == pc # "raised"

(* ------------------------------------------------------------------ *)
(* C8                                                                   *)
(* ------------------------------------------------------------------ *)

\* C8: for a seed that is a URL, create_site_map returns, whatever the site
\* and max_depth.
C8_Terminates == ~urlparse_raises(url) => <>(pc = "returned")

\* a finished crawl over a site with a page linking to itself and a page
\* linking back to the seed
C8_Witness ==
    /\ pc = "returned"
    /\ \E k \in DOMAIN sitemap :
           /\ IsPage(sitemap[k])
           /\ \E a \in DOMAIN sitemap[k].links :
                  sitemap[k].links[a].url = sitemap[k].url
    /\ \E k \in DOMAIN sitemap :
           /\ k > 1 /\ IsPage(sitemap[k])
           /\ \E a \in DOMAIN sitemap[k].links : sitemap[k].links[a].url = url
    /\ \E k \in DOMAIN sitemap : IsError(sitemap[k])

(* ------------------------------------------------------------------ *)
(* C9                                                                   *)
(* ------------------------------------------------------------------ *)

\* the pages the fetch of index i was reached through
RECURSIVE Above(_)
Above(i) ==
    IF fetched[i].caller = NoUrl THEN {}
    ELSE LET j == CHOOSE j \in DOMAIN fetched : fetched[j].url = fetched[i].caller
         IN  {fetched[j].url} \cup Above(j)

\* C9 as claimed: one fetch in flight at a time, in the running call; a page
\* has its entry before anything is fetched through its links; a fetch is
\* started from the page of the fetch before it or from one of the pages above
\* that one (a subtree is done before the next sibling starts); and the
\* sitemap lists the URLs in the order their fetches started.
C9_AsClaimed ==
    /\ \A k \in DOMAIN stack : stack[k].at = "fetch" => k = Len(stack)
    /\ \A i \in DOMAIN fetched :
           i > 1 => \E k \in EntriesOf(fetched[i].caller) : IsPage(sitemap[k])
    /\ \A i \in DOMAIN fetched :
           i > 1 => fetched[i].caller \in
                        {fetched[i - 1].url} \cup Above(i - 1)
    /\ Len(sitemap) <= Len(fetched)
    /\ \A k \in DOMAIN sitemap : sitemap[k].url = fetched[k].url
    /\ pc = "returned" => Len(sitemap) = Len(fetched)

(* ------------------------------------------------------------------ *)
(* C10                                                                  *)
(* ------------------------------------------------------------------ *)

\* C10 as claimed: at return every URL in visited has exactly one entry, every
\* entry is of a URL in visited, pages is the number of URLs fetched, and a
\* seed that fails to fetch gives the single entry {url, error}.
C10_AsClaimed ==
    pc = "returned" =>
        /\ \A u \in visited : Cardinality(EntriesOf(u)) = 1
        /\ EntryUrls \subseteq visited
        /\ result.pages = Cardinality(FetchedUrls)
        /\ (max_depth >= 1 /\ ~fetch_url(url).ok) =>
               /\ result.pages = 1
               /\ IsError(result.sitemap[1]) /\ result.sitemap[1].url = url

====
